---- MODULE Spec2Model ----
(***************************************************************************)
(* Model of the light-ini event-driven INI parser (src/src/lib.rs).        *)
(*                                                                         *)
(* A line of text is a sequence of characters; a character is a string     *)
(* token with a UTF-8 width in bytes.  Offsets (find, split_at,            *)
(* is_char_boundary) are byte offsets, as in the source.  The input of a   *)
(* parse call is the sequence of items that BufRead::lines() yields: a     *)
(* line without its terminator, or a read error.                           *)
(***************************************************************************)
EXTENDS Integers, Sequences, FiniteSets

(***************************************************************************)
(* Bounds of the model.                                                    *)
(***************************************************************************)
\* longest line enumerated by the single-line specification SpecLine
MaxLen == 4
\* total number of lines given to the parse calls of one parser (Spec)
MaxLines == 3
\* number of parse calls made on one parser
MaxParses == 2

(***************************************************************************)
(* Characters.                                                             *)
(***************************************************************************)
\* two-byte characters: U+00A7 (section sign), U+0135 (j circumflex)
TwoByte == {"U+00A7", "U+0135"}

\* char::len_utf8
Width(c) == IF c \in TwoByte THEN 2 ELSE 1

\* char::is_whitespace, restricted to the characters of the model
IsWhitespace(c) == c \in {" ", "\t", "\r"}

\* the characters of the lines enumerated by SpecLine
Alphabet == {" ", "[", "]", "=", ";", "a", "U+00A7"}

\* the comment characters of the tests: ';' is the default of new, '#' is
\* given to with_start_comment
TestCommentChars == {";", "#"}

\* the characters given to with_start_comment in SpecLine
CommentChars == TestCommentChars \cup {"=", "[", "U+00A7"}

BoundedSeq(S, n) == UNION {[1..k -> S] : k \in 0..n}

(***************************************************************************)
(* str primitives.                                                         *)
(***************************************************************************)
\* str::len: the sum of the widths of the characters
ByteLen(s) ==
    LET sum[k \in 0..Len(s)] == IF k = 0 THEN 0 ELSE sum[k - 1] + Width(s[k])
    IN  sum[Len(s)]

\* str::is_char_boundary
IsCharBoundary(s, index) ==
    \E k \in 0..Len(s) : ByteLen(SubSeq(s, 1, k)) = index

\* str::split_at: panics when mid is not on a character boundary
SplitAt(s, mid) ==
    IF IsCharBoundary(s, mid)
    THEN LET k == CHOOSE k \in 0..Len(s) : ByteLen(SubSeq(s, 1, k)) = mid
         IN  [panic |-> FALSE, left |-> SubSeq(s, 1, k), right |-> SubSeq(s, k + 1, Len(s))]
    ELSE [panic |-> TRUE, left |-> <<>>, right |-> <<>>]

\* str::find(char): byte offset of the first occurrence, -1 for None
Find(s, c) ==
    IF \E k \in 1..Len(s) : s[k] = c
    THEN LET k == CHOOSE k \in 1..Len(s) : s[k] = c /\ \A j \in 1..(k - 1) : s[j] # c
         IN  ByteLen(SubSeq(s, 1, k - 1))
    ELSE -1

RECURSIVE TrimStart(_)
\* str::trim_start
TrimStart(s) ==
    IF s # <<>> /\ IsWhitespace(Head(s)) THEN TrimStart(Tail(s)) ELSE s

RECURSIVE TrimEnd(_)
\* str::trim_end
TrimEnd(s) ==
    IF s # <<>> /\ IsWhitespace(s[Len(s)]) THEN TrimEnd(SubSeq(s, 1, Len(s) - 1)) ELSE s

\* str::trim
Trim(s) == TrimStart(TrimEnd(s))

(***************************************************************************)
(* Results and errors.                                                     *)
(***************************************************************************)
NoResult == [kind |-> "None", line |-> 0, err |-> "none"]
Ok == [kind |-> "Ok", line |-> 0, err |-> "none"]
\* IniError::InvalidLine(usize)
InvalidLine(n) == [kind |-> "InvalidLine", line |-> n, err |-> "none"]
\* mutant: the read error is replaced by a new one
IoReplaced(e) == [kind |-> "Io", line |-> 0, err |-> "InvalidData"]

\* IniError::Io(io::Error)
Io(e) == [kind |-> "Io", line |-> 0, err |-> e]
\* mutant: the conversion forgets which error the handler returned
FromHandlerErrorGeneric(e) == [kind |-> "Handler", line |-> 0, err |-> "InvalidSection"]

\* impl From<HandlerError> for IniError
FromHandlerError(e) == [kind |-> "Handler", line |-> 0, err |-> e]
\* a panic unwinding out of the parse call
Panic == [kind |-> "Panic", line |-> 0, err |-> "none"]

(***************************************************************************)
(* The handler: tests::Handler, which writes every accepted call to its    *)
(* stream and rejects the name "invalid".                                  *)
(***************************************************************************)
INVALID == <<"i", "n", "v", "a", "l", "i", "d">>

\* the outcome of one handler call: the call as seen by the handler, its
\* return value and the handler's stream afterwards
Called(m, a, e, st) == [method |-> m, args |-> a, err |-> e, stream |-> st]

\* tests::Handler::section
HandlerSection(stream, name) ==
    IF name = INVALID
    THEN Called("section", <<name>>, "InvalidSection", stream)
    ELSE Called("section", <<name>>, "none", stream \o <<"<">> \o name \o <<">">>)

\* tests::Handler::option
HandlerOption(stream, name, value) ==
    IF name = INVALID
    THEN Called("option", <<name, value>>, "InvalidOption", stream)
    ELSE Called("option", <<name, value>>, "none",
                stream \o <<"(">> \o name \o <<"=">> \o value \o <<")">>)

\* tests::Handler::comment
HandlerComment(stream, comment) ==
    Called("comment", <<comment>>, "none", stream \o <<"/", "*">> \o comment \o <<"*", "/">>)

(***************************************************************************)
(* parse_ini_line.  Its outcome is the sequence of handler calls it made,  *)
(* the handler's stream afterwards and its Result.                         *)
(***************************************************************************)
Outcome(cs, st, res) == [calls |-> cs, stream |-> st, result |-> res]

\* `self.handler.xxx(..)?` : the call, then Ok or the converted error
AfterCall(c) ==
    Outcome(<<[method |-> c.method, args |-> c.args, err |-> c.err]>>, c.stream,
            IF c.err = "none" THEN Ok ELSE FromHandlerError(c.err))

\* mutant: the name ends at the last ']' of the line (rfind)
SectionBranchLast(rest, lineno, stream) ==
    IF \E k \in 1..Len(rest) : rest[k] = "]"
    THEN LET k == CHOOSE k \in 1..Len(rest) :
                      rest[k] = "]" /\ \A j \in (k + 1)..Len(rest) : rest[j] # "]"
         IN  AfterCall(HandlerSection(stream, Trim(SubSeq(rest, 1, k - 1))))
    ELSE Outcome(<<>>, stream, InvalidLine(lineno))

\* mutant: the text after ']' is not ignored but reported as a comment
SectionBranchTrailing(rest, lineno, stream) ==
    LET pos == Find(rest, "]")
    IN  IF pos >= 0
        THEN LET sp == SplitAt(rest, pos)
                 c1 == HandlerSection(stream, Trim(sp.left))
                 c2 == HandlerComment(c1.stream, Trim(Tail(sp.right)))
             IN  IF c1.err # "none" THEN AfterCall(c1)
                 ELSE Outcome(AfterCall(c1).calls \o AfterCall(c2).calls, c2.stream, Ok)
        ELSE Outcome(<<>>, stream, InvalidLine(lineno))

\* the branch `prefix == "["`
SectionBranch(rest, lineno, stream) ==
    LET pos == Find(rest, "]")
    IN  IF pos >= 0
        THEN LET sp == SplitAt(rest, pos)
             IN  IF sp.panic THEN Outcome(<<>>, stream, Panic)
                 ELSE AfterCall(HandlerSection(stream, Trim(sp.left)))
        ELSE Outcome(<<>>, stream, InvalidLine(lineno))

\* the branch `prefix == self.start_comment`
CommentBranch(rest, stream) ==
    AfterCall(HandlerComment(stream, TrimStart(rest)))

\* mutant: an empty key is reported as a syntax error
OptionBranchNamed(line, lineno, stream) ==
    LET pos == Find(line, "=")
    IN  IF pos > 0
        THEN LET sp == SplitAt(line, pos)
                 sv == SplitAt(sp.right, 1)
             IN  IF sp.panic \/ sv.panic THEN Outcome(<<>>, stream, Panic)
                 ELSE AfterCall(HandlerOption(stream, Trim(sp.left), Trim(sv.right)))
        ELSE Outcome(<<>>, stream, InvalidLine(lineno))

\* mutant: the line is split at its last '=' (rfind)
OptionBranchLast(line, lineno, stream) ==
    IF \E k \in 1..Len(line) : line[k] = "="
    THEN LET k == CHOOSE k \in 1..Len(line) :
                      line[k] = "=" /\ \A j \in (k + 1)..Len(line) : line[j] # "="
         IN  AfterCall(HandlerOption(stream, Trim(SubSeq(line, 1, k - 1)),
                                     Trim(SubSeq(line, k + 1, Len(line)))))
    ELSE Outcome(<<>>, stream, InvalidLine(lineno))

\* the last branch: an option or nothing
OptionBranch(line, lineno, stream) ==
    LET pos == Find(line, "=")
    IN  IF pos >= 0
        THEN LET sp == SplitAt(line, pos)
                 sv == SplitAt(sp.right, 1)
             IN  IF sp.panic \/ sv.panic THEN Outcome(<<>>, stream, Panic)
                 ELSE AfterCall(HandlerOption(stream, Trim(sp.left), Trim(sv.right)))
        ELSE Outcome(<<>>, stream, InvalidLine(lineno))

\* mutant: the first byte is split off without the boundary check
PrefixRestUnchecked(line) == SplitAt(line, 1)

\* `if line.is_char_boundary(1) { line.split_at(1) } else { ("", line) }`
PrefixRest(line) ==
    IF IsCharBoundary(line, 1)
    THEN SplitAt(line, 1)
    ELSE [panic |-> FALSE, left |-> <<>>, right |-> line]

\* mutant: an option is only accepted once a section has been seen
parse_ini_line_InSection(raw, lineno, sc, stream) ==
    LET line == TrimStart(raw)
    IN  IF line = <<>>
        THEN Outcome(<<>>, stream, Ok)
        ELSE LET pr == PrefixRest(line)
             IN  IF pr.left = <<"[">> THEN SectionBranch(pr.right, lineno, stream)
                 ELSE IF pr.left = <<sc>> THEN CommentBranch(pr.right, stream)
                 ELSE IF \E k \in 1..Len(stream) : stream[k] = "<"
                      THEN OptionBranch(line, lineno, stream)
                      ELSE Outcome(<<>>, stream, InvalidLine(lineno))

\* mutant: the test for an empty line is missing
parse_ini_line_NoBlank(raw, lineno, sc, stream) ==
    LET line == TrimStart(raw)
        pr == PrefixRest(line)
    IN  IF pr.left = <<"[">> THEN SectionBranch(pr.right, lineno, stream)
        ELSE IF pr.left = <<sc>> THEN CommentBranch(pr.right, stream)
        ELSE OptionBranch(line, lineno, stream)

\* IniParser::parse_ini_line
parse_ini_line(raw, lineno, sc, stream) ==
    LET line == TrimStart(raw)
    IN  IF line = <<>>
        THEN Outcome(<<>>, stream, Ok)
        ELSE LET pr == PrefixRest(line)
             IN  IF pr.panic THEN Outcome(<<>>, stream, Panic)
                 ELSE IF pr.left = <<"[">> THEN SectionBranch(pr.right, lineno, stream)
                 ELSE IF pr.left = <<sc>> THEN CommentBranch(pr.right, stream)
                 ELSE OptionBranch(line, lineno, stream)

(***************************************************************************)
(* The state.                                                              *)
(***************************************************************************)
VARIABLES
    start_comment,  \* IniParser.start_comment (its one character)
    stream,         \* the handler's state: tests::Handler.stream
    pc,             \* "idle": no call active; "loop": in parse_buffered
    input,          \* the items of the current call's input, all of them
    rest,           \* the items the lines() iterator has not yielded yet
    lineno,         \* the local lineno of parse_buffered
    result,         \* what the last parse call returned
    calls,          \* history: the handler calls of the current parse call
    stream0,        \* history: the handler's stream when the call began
    parses,         \* number of parse calls made so far
    budget,         \* number of lines still available to later calls
    prev            \* history: input, calls, result and written text of the
                    \* parse call whose input is being parsed again

vars == <<start_comment, stream, pc, input, rest, lineno, result, calls,
          stream0, parses, budget, prev>>

\* the physical position (1-based) of the item the iterator yielded last
Pos == Len(input) - Len(rest)

\* an item of lines(): Ok(line) or Err(e)
LineItem(l) == [ok |-> TRUE, line |-> l, err |-> "none"]
ErrItem(e) == [ok |-> FALSE, line |-> <<>>, err |-> e]

\* io::ErrorKind of a failed read (InvalidData: the line is not UTF-8)
IoErrors == {"InvalidData", "Other"}

\* lines of the test inputs of the source (the comment shortened, and with
\* whitespace before its terminator)
DriverLines == {
    <<>>,
    <<"n", "a", "m", "e", " ", "=", " ", "o", "k">>,
    <<";", " ", "l", "o", "g", " ">>,
    <<"[", "l", "o", "g", "g", "i", "n", "g", "]">>,
    <<"[", "l", "o", "g", "g", "i", "n", "g">>,
    <<"l", "e", "v", "e", "l", " ", "e", "r", "r", "o", "r">>,
    <<"[", "i", "n", "v", "a", "l", "i", "d", "]">>,
    <<"i", "n", "v", "a", "l", "i", "d", " ", "=", " ", "e", "r", "r", "o", "r">> }

DriverItems == {LineItem(l) : l \in DriverLines} \cup {ErrItem("Other")}

\* every line of at most MaxLen characters, and the failed reads
SingleItems == {LineItem(l) : l \in BoundedSeq(Alphabet, MaxLen)} \cup {ErrItem(e) : e \in IoErrors}

(***************************************************************************)
(* Init: a handler and a parser have been constructed                      *)
(* (IniParser::with_start_comment; IniParser::new gives ';').              *)
(***************************************************************************)
\* the text the handler's stream gained since the parse call began
Written == SubSeq(stream, Len(stream0) + 1, Len(stream))

\* the record of a parse call: what it was given, did and returned
NoParse == [input |-> <<>>, calls |-> <<>>, result |-> NoResult, written |-> <<>>]
ThisParse == [input |-> input, calls |-> calls, result |-> result, written |-> Written]

Construct(chars) ==
    /\ start_comment \in chars
    /\ stream = <<>>
    /\ pc = "idle"
    /\ input = <<>>
    /\ rest = <<>>
    /\ lineno = 0
    /\ result = NoResult
    /\ calls = <<>>
    /\ stream0 = <<>>
    /\ parses = 0
    /\ budget = MaxLines
    /\ prev = NoParse

Init == Construct(TestCommentChars)

\* the parser of SpecLine: any of the comment characters
InitLine == Construct(CommentChars)

\* mutant: the counter outlives the call (a field of the parser)
LinenoKept(old) == old

\* `let mut lineno = 0`
LinenoStart(old) == 0

\* entry of IniParser::parse_buffered with the items of `inp`
Enter(inp) ==
    /\ pc = "idle"
    /\ parses < MaxParses
    /\ Len(inp) <= budget
    /\ pc' = "loop"
    /\ input' = inp
    /\ rest' = inp
    /\ lineno' = LinenoStart(lineno)
    /\ result' = NoResult
    /\ calls' = <<>>
    /\ stream0' = stream
    /\ parses' = parses + 1
    /\ budget' = budget - Len(inp)
    /\ UNCHANGED <<start_comment, stream, prev>>

\* a parse call on an input of the test lines
ParseBuffered == \E inp \in BoundedSeq(DriverItems, budget) : Enter(inp)

\* the one parse call of SpecLine: an input of a single enumerated line
ParseSingle == parses = 0 /\ \E it \in SingleItems : Enter(<<it>>)

\* the first parse call of SpecTwice
ParseFirst == parses = 0 /\ ParseBuffered

\* the second parse call of SpecTwice: the same parser is given the input
\* of the call that has returned once more
ParseAgain ==
    /\ pc = "idle"
    /\ parses = 1
    /\ pc' = "loop"
    /\ rest' = input
    /\ lineno' = LinenoStart(lineno)
    /\ result' = NoResult
    /\ calls' = <<>>
    /\ stream0' = stream
    /\ parses' = parses + 1
    /\ prev' = ThisParse
    /\ UNCHANGED <<start_comment, stream, input, budget>>

\* mutant: the increment is missing
IncrMissing(n) == n

\* `lineno += 1`
Incr(n) == n + 1

\* mutant: the line is passed as lines() yields it
StrippedNot(line) == line

\* `line.trim_end()`, the argument given to parse_ini_line
Stripped(line) == TrimEnd(line)

\* mutant: only a syntax error ends the call, a handler error is dropped
ReturnsOnSyntaxOnly(res) == res.kind \in {"InvalidLine", "Panic"}

\* the `?` after parse_ini_line: does the call return now?
Returns(res) == res.kind # "Ok"

\* one iteration of `for res in input.lines()`
NextLine ==
    /\ pc = "loop"
    /\ rest # <<>>
    /\ LET item == Head(rest)
           n == Incr(lineno)
           p == Len(input) - Len(rest) + 1
       IN  /\ rest' = Tail(rest)
           /\ lineno' = n
           /\ IF item.ok
              THEN LET r == parse_ini_line(Stripped(item.line), n, start_comment, stream)
                   IN  /\ calls' = calls \o
                              [i \in 1..Len(r.calls) |->
                                  [line |-> p, method |-> r.calls[i].method,
                                   args |-> r.calls[i].args, err |-> r.calls[i].err]]
                       /\ stream' = r.stream
                       /\ IF Returns(r.result)
                          THEN pc' = "idle" /\ result' = r.result
                          ELSE pc' = "loop" /\ result' = result
              ELSE /\ result' = Io(item.err)
                   /\ pc' = "idle"
                   /\ UNCHANGED <<calls, stream>>
    /\ UNCHANGED <<start_comment, input, stream0, parses, budget, prev>>

\* the iterator is exhausted: `Ok(())`
Return ==
    /\ pc = "loop"
    /\ rest = <<>>
    /\ pc' = "idle"
    /\ result' = Ok
    /\ UNCHANGED <<start_comment, stream, input, rest, lineno, calls, stream0,
                   parses, budget, prev>>

Next == ParseBuffered \/ NextLine \/ Return

Spec == Init /\ [][Next]_vars

NextSingle == ParseSingle \/ NextLine \/ Return

SpecLine == InitLine /\ [][NextSingle]_vars

\* the loop takes the next item of the iterator: the steps of Spec that
\* change rest this way are the NextLine steps, and NextLine is enabled
\* exactly when this is
Yields == pc = "loop" /\ rest # <<>> /\ rest' = Tail(rest)

\* Spec with the progress of the synchronous loop: a call that has been
\* entered keeps taking its next step (the handler calls return)
FairSpec == Spec /\ WF_rest(Yields) /\ WF_vars(Return)

NextTwice == ParseFirst \/ ParseAgain \/ NextLine \/ Return

\* one input parsed twice by one parser
SpecTwice == Init /\ [][NextTwice]_vars

(***************************************************************************)
(* Vocabulary of the properties.                                           *)
(***************************************************************************)
\* the last parse call has returned
Returned == pc = "idle" /\ result.kind # "None"

\* the indices of the recorded handler calls made for physical line p
CallsAt(p) == {i \in DOMAIN calls : calls[i].line = p}

\* what processing line p of the current input does on its own
Alone(p) == parse_ini_line(Stripped(input[p].line), p, start_comment, <<>>)

\* processing line p ends in an error: a failed read, a syntax error or a
\* call that the handler rejects
LineFails(p) == ~input[p].ok \/ Alone(p).result.kind # "Ok"

\* line p is well-formed and not blank: it is dispatched to the handler
WellFormed(p) == input[p].ok /\ Alone(p).calls # <<>>

\* line p is blank
Blank(p) == input[p].ok /\ TrimStart(input[p].line) = <<>>

RECURSIVE FirstFailFrom(_)
\* the first failing line at or after p, Len(input) + 1 if none
FirstFailFrom(p) ==
    IF p > Len(input) \/ LineFails(p) THEN p ELSE FirstFailFrom(p + 1)

\* the first failing line of the current input, Len(input) + 1 if none
FirstFail == FirstFailFrom(1)

\* the number of well-formed non-blank lines before the first failing line
WellFormedBeforeFail == Cardinality({p \in 1..(FirstFail - 1) : WellFormed(p)})

RECURSIVE StreamAfter(_, _)
\* the handler's stream after the calls for the first n lines of the input,
\* starting from the stream the parse call found
StreamAfter(st, n) ==
    IF n = 0 THEN st
    ELSE LET before == StreamAfter(st, n - 1)
         IN  IF input[n].ok
             THEN parse_ini_line(Stripped(input[n].line), n, start_comment, before).stream
             ELSE before

(***************************************************************************)
(* C1: once the processing of line n ends in an error, the iterator is not *)
(* advanced past n and no handler call is made for a line after n.         *)
(***************************************************************************)
C1_NothingAfterError ==
    LET n == FirstFail
    IN  n <= Len(input) => (Pos <= n /\ \A i \in DOMAIN calls : calls[i].line <= n)

\* a parse that failed before its last line, which the handler would have got
C1_Witness ==
    /\ Returned
    /\ result.kind \in {"InvalidLine", "Handler", "Io"}
    /\ Pos < Len(input)
    /\ WellFormed(Len(input))

(***************************************************************************)
(* C2 as stated: when a parse call has returned, the number of handler     *)
(* calls made during it equals the number of well-formed non-blank lines   *)
(* before the first error (all of them if there is none).                  *)
(***************************************************************************)
C2_Original == Returned => Len(calls) = WellFormedBeforeFail

(***************************************************************************)
(* C2 amended: the number of handler calls equals the number of            *)
(* well-formed non-blank lines before the first error, plus one when the   *)
(* error is a handler error (the rejected call was made too).              *)
(***************************************************************************)
C2_CallCount ==
    Returned =>
        Len(calls) = WellFormedBeforeFail + (IF result.kind = "Handler" THEN 1 ELSE 0)

\* a handler error after an accepted call: two calls, one line before the error
C2_Witness ==
    /\ Returned
    /\ result.kind = "Handler"
    /\ Len(calls) = 2
    /\ WellFormedBeforeFail = 1

(***************************************************************************)
(* C3: a physical line causes at most one handler call and the calls are   *)
(* made in the order of the lines: the line numbers of the recorded calls  *)
(* strictly increase, and each is a line already read.                     *)
(***************************************************************************)
C3_OneCallPerLineInOrder ==
    /\ \A i \in DOMAIN calls : calls[i].line \in 1..Pos
    /\ \A i, j \in DOMAIN calls : i < j => calls[i].line < calls[j].line
    /\ \A p \in 1..Pos : Cardinality(CallsAt(p)) <= 1

\* three calls for three lines of one input
C3_Witness ==
    /\ Returned
    /\ Len(calls) = 3
    /\ calls[1].method # calls[2].method

(***************************************************************************)
(* C4: InvalidLine(n) carries the 1-based physical position of the         *)
(* malformed line, blank and comment lines before it counted, and no       *)
(* handler call is made for that line.                                     *)
(***************************************************************************)
C4_InvalidLineNumber ==
    (Returned /\ result.kind = "InvalidLine") =>
        /\ result.line = Pos
        /\ Pos >= 1
        /\ input[Pos].ok
        /\ Alone(Pos).result.kind = "InvalidLine"
        /\ FirstFail = Pos
        /\ CallsAt(Pos) = {}

\* the unclosed section on line 3, after an option line and a blank line
C4_Witness ==
    /\ Returned
    /\ result = InvalidLine(3)
    /\ Blank(2)
    /\ Len(calls) = 1
    /\ calls[1].method = "option"
    /\ Head(input[3].line) = "["

(***************************************************************************)
(* C5: when the handler returns error e for the call made on line n, the   *)
(* parse returns Handler(e) with that very e, the failing call is made     *)
(* once, and the handler's state is the one produced by the calls for the  *)
(* lines before n.                                                         *)
(***************************************************************************)
C5_HandlerError ==
    /\ (Returned /\ result.kind = "Handler") =>
          /\ calls # <<>>
          /\ calls[Len(calls)].line = Pos
          /\ calls[Len(calls)].err = result.err
          /\ result.err # "none"
          /\ \A i \in 1..(Len(calls) - 1) : calls[i].err = "none"
          /\ stream = StreamAfter(stream0, Pos - 1)
    /\ \A i \in DOMAIN calls :
          calls[i].err # "none" =>
              (Returned /\ result.kind = "Handler" /\ i = Len(calls))

\* a rejected option after an accepted call that changed the handler's state
C5_Witness ==
    /\ Returned
    /\ result = FromHandlerError("InvalidOption")
    /\ Len(calls) = 2
    /\ stream # stream0
(***************************************************************************)
(* Vocabulary of the properties about one line.                            *)
(***************************************************************************)
\* line p of the current input has been read and processed
Processed(p) == p \in 1..Pos /\ input[p].ok

\* the text of line p as lines() yields it, and without leading whitespace
Text(p) == input[p].line
Lead(p) == TrimStart(Text(p))

\* c occurs in s; the index of its first occurrence; the text before and
\* after that occurrence
Has(s, c) == \E k \in 1..Len(s) : s[k] = c
FirstIdx(s, c) == CHOOSE k \in 1..Len(s) : s[k] = c /\ \A j \in 1..(k - 1) : s[j] # c
Before(s, c) == SubSeq(s, 1, FirstIdx(s, c) - 1)
After(s, c) == SubSeq(s, FirstIdx(s, c) + 1, Len(s))

\* line p has exactly one handler call, of method m with arguments a
OnlyCall(p, m, a) ==
    /\ Cardinality(CallsAt(p)) = 1
    /\ \A i \in CallsAt(p) : calls[i].method = m /\ calls[i].args = a

\* line p was reported as a syntax error and got no handler call
SyntaxErrorAt(p) ==
    /\ CallsAt(p) = {}
    /\ Returned
    /\ p = Pos
    /\ result = InvalidLine(p)

\* line p begins, after whitespace, with '[' / with the comment prefix
SectionLine(p) == Lead(p) # <<>> /\ Head(Lead(p)) = "["
CommentLine(p) == Lead(p) # <<>> /\ Head(Lead(p)) = start_comment /\ start_comment # "["

(***************************************************************************)
(* C6: classification follows the first non-whitespace character with      *)
(* precedence section > comment > option: a line beginning with '[' only   *)
(* gives a section call or a syntax error, and a line beginning with the   *)
(* comment prefix (other than '[') only gives a comment call.              *)
(***************************************************************************)
C6_Precedence ==
    \A p \in 1..Pos :
        Processed(p) =>
            /\ SectionLine(p) =>
                  /\ \A i \in CallsAt(p) : calls[i].method = "section"
                  /\ CallsAt(p) = {} => SyntaxErrorAt(p)
            /\ CommentLine(p) =>
                  /\ Cardinality(CallsAt(p)) = 1
                  /\ \A i \in CallsAt(p) : calls[i].method = "comment"

(***************************************************************************)
(* C7: for every comment prefix c other than '[', a line whose first       *)
(* non-whitespace character is c is dispatched to handler.comment with the *)
(* text after c, leading whitespace trimmed (the text is taken up to the   *)
(* stripped end of the line).                                              *)
(***************************************************************************)
C7_CommentDispatch ==
    \A p \in 1..Pos :
        (Processed(p) /\ CommentLine(p)) =>
            OnlyCall(p, "comment", <<TrimStart(Tail(TrimEnd(Lead(p))))>>)

(***************************************************************************)
(* C8 as stated: the comment text keeps the trailing whitespace of the     *)
(* line; only the whitespace directly after the prefix is trimmed.         *)
(***************************************************************************)
C8_Original ==
    \A p \in 1..Pos :
        \A i \in CallsAt(p) :
            calls[i].method = "comment" =>
                calls[i].args = <<TrimStart(Tail(Lead(p)))>>

(***************************************************************************)
(* C8 amended: the comment text is the text after the prefix trimmed on    *)
(* both sides: the whitespace between the last non-blank character and the *)
(* line terminator is not delivered; interior whitespace is.               *)
(***************************************************************************)
C8_CommentTrimmed ==
    \A p \in 1..Pos :
        \A i \in CallsAt(p) :
            calls[i].method = "comment" =>
                /\ calls[i].args = <<Trim(Tail(Lead(p)))>>
                /\ LET text == calls[i].args[1]
                   IN  text # <<>> =>
                           ~IsWhitespace(text[1]) /\ ~IsWhitespace(text[Len(text)])

\* a comment with text, from a line that ends with whitespace
C8_Witness ==
    \E p \in 1..Pos :
        /\ Processed(p)
        /\ Text(p) # <<>>
        /\ IsWhitespace(Text(p)[Len(Text(p))])
        /\ \E i \in CallsAt(p) :
               calls[i].method = "comment" /\ calls[i].args[1] # <<>>

(***************************************************************************)
(* C9: a line beginning with '[' gives, when a ']' follows, one section    *)
(* call with the trimmed text between '[' and the first ']' (the text      *)
(* after it is ignored, no syntax error), and otherwise a syntax error for *)
(* that line and no call.                                                  *)
(***************************************************************************)
C9_Section ==
    \A p \in 1..Pos :
        (Processed(p) /\ SectionLine(p)) =>
            LET r == Tail(Lead(p))
            IN  IF Has(r, "]")
                THEN /\ OnlyCall(p, "section", <<Trim(Before(r, "]"))>>)
                     /\ result.kind # "InvalidLine"
                ELSE SyntaxErrorAt(p)

\* a section call from a line with text after the ']'
C9_Witness ==
    \E p \in 1..Pos :
        /\ Processed(p)
        /\ SectionLine(p)
        /\ \E i \in CallsAt(p) : calls[i].method = "section"
        /\ After(Tail(Lead(p)), "]") # <<>>
        /\ ~IsWhitespace(Text(p)[Len(Text(p))])

(***************************************************************************)
(* C10: a line that is not blank, does not begin with '[' and does not     *)
(* begin with the comment prefix gives, when it contains '=', one option   *)
(* call with key = the trimmed text before the first '=' and value = the   *)
(* trimmed text after it, and otherwise a syntax error and no call.        *)
(***************************************************************************)
C10_Option ==
    \A p \in 1..Pos :
        (/\ Processed(p)
         /\ Lead(p) # <<>>
         /\ Head(Lead(p)) # "["
         /\ Head(Lead(p)) # start_comment) =>
            IF Has(Text(p), "=")
            THEN OnlyCall(p, "option",
                          <<Trim(Before(Text(p), "=")), Trim(After(Text(p), "="))>>)
            ELSE SyntaxErrorAt(p)

\* an option call whose value holds a further '='
C10_Witness ==
    \E p \in 1..Pos :
        \E i \in CallsAt(p) :
            /\ calls[i].method = "option"
            /\ calls[i].args[1] # <<>>
            /\ Has(calls[i].args[2], "=")
ErrorOf(p) == IF input[p].ok THEN Alone(p).result ELSE Io(input[p].err)

C12_OkOrFirstError ==
    Returned =>
        LET f == FirstFail
        IN  IF f > Len(input)
            THEN /\ result = Ok
                 /\ Pos = Len(input)
                 /\ \A i \in DOMAIN calls : calls[i].err = "none"
            ELSE /\ result = ErrorOf(f)
                 /\ result.kind \in {"InvalidLine", "Handler", "Io"}
                 /\ Pos = f

\* line 2 is malformed and line 3 would be rejected by the handler
C12_Witness ==
    /\ Returned
    /\ Len(input) = 3
    /\ result = InvalidLine(2)
    /\ ErrorOf(3).kind = "Handler"
(***************************************************************************)
(* C13: a line whose first non-whitespace character is a multi-byte        *)
(* character is never split inside a character (no panic); it gives one    *)
(* option call with the unchanged trimmed key and value when it contains   *)
(* '=' and a syntax error otherwise, never a section or a comment call.    *)
(***************************************************************************)
MultiByteLine(p) == Lead(p) # <<>> /\ Width(Head(Lead(p))) > 1

BlankNext ==
    /\ pc = "loop"
    /\ rest # <<>>
    /\ Head(rest).ok
    /\ \A k \in 1..Len(Head(rest).line) : IsWhitespace(Head(rest).line[k])

C14_BlankLine ==
    [][BlankNext =>
          /\ calls' = calls
          /\ stream' = stream
          /\ result' = result
          /\ pc' = "loop"
          /\ rest' = Tail(rest)
          /\ lineno' = lineno + 1]_vars

\* a line of whitespace has been read and counted, and the parse goes on
C14_Witness ==
    /\ pc = "loop"
    /\ Pos = 1
    /\ lineno = 1
    /\ input[1].ok
    /\ Len(Text(1)) >= 2
    /\ \A k \in 1..Len(Text(1)) : IsWhitespace(Text(1)[k])
    /\ calls = <<>>
    /\ result = NoResult
(***************************************************************************)
(* C15: what a line produces (the handler call with its method and         *)
(* arguments, or the syntax error) depends only on the text of the line    *)
(* and the comment prefix, never on the lines before it: it is what the    *)
(* line produces on its own, and two lines of the same text in one input   *)
(* are dispatched alike (an option before and after a section line, a      *)
(* section name given twice).                                              *)
(***************************************************************************)
\* method and arguments of the handler calls made for line p
DispatchAt(p) == {<<calls[i].method, calls[i].args>> : i \in CallsAt(p)}

\* method and arguments of the handler calls line p gives on its own
DispatchAlone(p) ==
    {<<Alone(p).calls[i].method, Alone(p).calls[i].args>> : i \in DOMAIN Alone(p).calls}

C15_NoStateBetweenLines ==
    \A p \in 1..Pos :
        input[p].ok =>
            /\ DispatchAt(p) = DispatchAlone(p)
            /\ (Alone(p).result.kind = "InvalidLine") <=>
                  (Returned /\ p = Pos /\ result.kind = "InvalidLine")
            /\ \A q \in 1..Pos :
                  (input[q].ok /\ Text(q) = Text(p)) => DispatchAt(q) = DispatchAt(p)

\* the same option line before and after a section line
C15_Witness ==
    /\ Len(calls) = 3
    /\ calls[1].method = "option"
    /\ calls[2].method = "section"
    /\ calls[3].method = "option"
    /\ Text(1) = Text(3)
    /\ calls[3].args = calls[1].args
(***************************************************************************)
(* C16: the line counter is local to one parse_buffered call: a call       *)
(* starts it at 0, every line read (whatever it holds, a failed read       *)
(* included) adds exactly one, so that it is the number of lines read, and *)
(* nothing else changes it; the next call on the same parser starts again, *)
(* and the comment prefix never changes.                                   *)
(***************************************************************************)
C16_LineCounter ==
    [][/\ start_comment' = start_comment
       /\ lineno' = Pos'
       /\ parses' # parses => lineno' = 0
       /\ parses' = parses => lineno' >= lineno
       /\ (parses' = parses /\ pc = "loop" /\ rest # <<>>) => lineno' = lineno + 1
       /\ (parses' = parses /\ ~(pc = "loop" /\ rest # <<>>)) => lineno' = lineno]_vars

\* the second call of a parser whose first call made calls: its first line
\* is reported as line 1
C16_Witness ==
    /\ parses = 2
    /\ stream0 # <<>>
    /\ Returned
    /\ result = InvalidLine(1)
    /\ lineno = 1
(***************************************************************************)
(* C17: when reading a line fails, the parse returns Io with the error of  *)
(* that read at once: no handler call for that line or a later one, and    *)
(* the calls made for the lines read before it stay applied.               *)
(***************************************************************************)
C17_ReadError ==
    /\ \A p \in 1..Pos :
          ~input[p].ok => (Returned /\ p = Pos /\ result = Io(input[p].err))
    /\ (Returned /\ result.kind = "Io") =>
          /\ Pos >= 1
          /\ ~input[Pos].ok
          /\ result.err = input[Pos].err
          /\ \A i \in DOMAIN calls : calls[i].line < Pos /\ calls[i].err = "none"
          /\ Len(calls) = Cardinality({q \in 1..(Pos - 1) : WellFormed(q)})
          /\ stream = StreamAfter(stream0, Pos - 1)

\* a failed read after an accepted call and before a line the handler
\* would have got
C17_Witness ==
    /\ Returned
    /\ result.kind = "Io"
    /\ calls # <<>>
    /\ stream # stream0
    /\ Pos < Len(input)
    /\ WellFormed(Len(input))
(***************************************************************************)
(* C18: a parse call on a finite input eventually returns, after at most   *)
(* one step per line of the input; it returns Ok only when every line has  *)
(* been read and processed, and it returns an error at the failing line,   *)
(* the lines after it unread.                                              *)
(***************************************************************************)
C18_Terminates ==
    /\ (pc = "loop") ~> (pc = "idle" /\ Returned)
    /\ [](lineno <= Len(input))
    /\ []((Returned /\ result = Ok) => (rest = <<>> /\ lineno = Len(input)))
    /\ []((Returned /\ result # Ok) =>
            (Pos = FirstFail /\ lineno = Pos /\ Len(rest) = Len(input) - FirstFail))

\* a call that returned an error with lines left unread
C18_Witness ==
    /\ Returned
    /\ result.kind \in {"InvalidLine", "Handler", "Io"}
    /\ lineno = 2
    /\ Len(rest) = 1
(***************************************************************************)
(* C19: empty names are accepted: a line beginning with '=' (the comment   *)
(* prefix being another character) gives an option call with an empty     *)
(* key, a line '[' whitespace ']' gives a section call with an empty name, *)
(* and no line that contains '=' and does not begin (after whitespace)     *)
(* with '[' is reported as a syntax error.                                 *)
(***************************************************************************)
C19_EmptyNames ==
    \A p \in 1..Pos :
        (Processed(p) /\ Lead(p) # <<>>) =>
            /\ (Head(Lead(p)) = "=" /\ start_comment # "=") =>
                  OnlyCall(p, "option", <<<<>>, Trim(Tail(Lead(p)))>>)
            /\ (/\ Head(Lead(p)) = "["
                /\ Has(Tail(Lead(p)), "]")
                /\ \A k \in 1..Len(Before(Tail(Lead(p)), "]")) :
                       IsWhitespace(Before(Tail(Lead(p)), "]")[k])) =>
                  OnlyCall(p, "section", <<<<>>>>)
            /\ (Has(Text(p), "=") /\ Head(Lead(p)) # "[") =>
                  (CallsAt(p) # {} /\ result.kind # "InvalidLine")

\* a section call with an empty name from brackets around whitespace
C19_Witness ==
    \E p \in 1..Pos :
        /\ Processed(p)
        /\ Len(Text(p)) >= 3
        /\ \E i \in CallsAt(p) :
               calls[i].method = "section" /\ calls[i].args = <<<<>>>>

====
